---- MODULE Spec2Model ----
(***************************************************************************)
(* Authentication / authorization middleware pipeline of the Primerade     *)
(* REST API: authenticate, authorizeAdmin, authorizeOwnerOrAdmin           *)
(* (middleware/auth.js), the users and products routes and the error      *)
(* handler.                                                                *)
(***************************************************************************)
EXTENDS Integers, Sequences, FiniteSets, TLC

(* ------------------------------ bounds --------------------------------- *)
\* last instant of the clock (seconds); token expiries range over 1..MaxTime
MaxTime == 2

(* -------------------------- values of the model ------------------------ *)
AccountIds == {"a1", "a2"}
Roles == {"user", "admin"}
\* Requests share nothing but the stores, and every change of a store is an
\* action of its own, so one request context is followed at a time.
ReqIds == {1}

\* process.env.JWT_SECRET and a secret the server does not hold
JWT_SECRET == "JWT_SECRET"

\* a row of the users table; NoUser is the null that findByPk resolves to
NoUser == [id |-> "null", role |-> "null", isActive |-> FALSE, password |-> "null"]
\* the value of the local `user` before the store read has resolved
Unread == [id |-> "unread", role |-> "unread", isActive |-> FALSE, password |-> "unread"]
Account(i, ro, act) == [id |-> i, role |-> ro, isActive |-> act, password |-> "bcrypt-hash"]
Accounts == {Account(i, ro, act) : i \in AccountIds, ro \in Roles, act \in BOOLEAN}

\* a token: three-part signed structure, or a string that is not a JWT at all
Garbage == [sub |-> "garbage", key |-> "garbage", exp |-> 0]
SignedTokens ==
    [sub : AccountIds, key : {JWT_SECRET}, exp : 1..MaxTime]
        \cup [sub : {"a1"}, key : {"other-secret"}, exp : 1..MaxTime]
Tokens == SignedTokens \cup {Garbage}

\* the Authorization header: absent, empty, or a 7-character prefix and the rest
NoHeader == [prefix |-> "undefined", rest |-> Garbage]
EmptyHeader == [prefix |-> "", rest |-> Garbage]
Headers ==
    {NoHeader, EmptyHeader}
        \cup [prefix : {"Token a", "bearer "}, rest : {Garbage}]
        \cup [prefix : {"Bearer "}, rest : Tokens]

\* headers of the requests followed through the ownership gate
GateHeaders ==
    {NoHeader} \cup [prefix : {"Bearer "},
                     rest : [sub : AccountIds, key : {JWT_SECRET}, exp : {MaxTime}]]

\* values of a userId carried by the request: an id, "" (falsy) or undefined
Undefined == "undefined"
FieldVals == AccountIds \cup {Undefined, ""}

\* routes: the two users routes, and a route guarded by the ownership gate
UserRoutes == {"GET /users", "GET /users/:id"}
OwnedRoute == "OWNED"
\* the products routes: router.use(authenticate), then the handler
ProductRoutes ==
    {"GET /products", "GET /products/:id", "POST /products",
     "PUT /products/:id", "DELETE /products/:id"}

NoRes == [status |-> 0, body |-> [success |-> FALSE, message |-> "none"]]
Json(status, body) == [status |-> status, body |-> body]

VARIABLES
    users,        \* Credential Store: account id -> row or NoUser
    products,     \* product store: product id -> row or NoProduct
    now,          \* clock in seconds
    nodeEnv,      \* process.env.NODE_ENV
    reqs          \* in-flight requests: slot -> request record

vars == <<users, products, now, nodeEnv, reqs>>

ProductIds == {"p1", "p2"}

\* an error object: name, message, the statusCode property it may carry
\* (0 stands for undefined), the field messages of a validation error, and
\* the stack, which starts with the error's name and message
Err(name, message, statusCode, errors) ==
    [name |-> name, message |-> message, statusCode |-> statusCode,
     errors |-> errors, stack |-> name \o ": " \o message]

NoErr == Err("none", "none", 0, <<>>)

\* a row of the products table (owner, name, category); NoProduct is the
\* null that findByPk resolves to
NoProduct == [userId |-> "null", name |-> "null", category |-> "null"]
Product(owner, name, category) == [userId |-> owner, name |-> name, category |-> category]
ProductNames == {"n0", "n1"}
Categories == {"c0", "c1"}

\* the seeded database: an admin, a regular user and the user's products
SeedUsers == [a \in AccountIds |-> IF a = "a1" THEN Account(a, "admin", TRUE)
                                                ELSE Account(a, "user", TRUE)]
SeedProducts == [p \in ProductIds |-> Product("a2", "n0", IF p = "p1" THEN "c0" ELSE "c1")]

\* the result of parseInt on a query value: NaN (value absent or not a
\* number) or an integer
NaN == [nan |-> TRUE, n |-> 0]
QInt(n) == [nan |-> FALSE, n |-> n]

\* the query a list handler has issued (none yet: issued is FALSE)
NotIssued == [issued |-> FALSE, limit |-> 0, offset |-> 0]
Issued(limit, offset) == [issued |-> TRUE, limit |-> limit, offset |-> offset]

\* req.query: page and limit as parseInt reads them, category and search
NoQuery == [page |-> NaN, limit |-> NaN, category |-> Undefined, search |-> Undefined]

\* a database on which each account owns one product
OwnedProducts ==
    [p \in ProductIds |-> IF p = "p1" THEN Product("a1", "n0", "c0")
                                       ELSE Product("a2", "n0", "c1")]

IdleReq ==
    [pc |-> "idle", route |-> "none", header |-> NoHeader,
     resourceUserId |-> Undefined, bodyUserId |-> Undefined,
     paramsUserId |-> Undefined, paramsId |-> Undefined,
     decodedId |-> Undefined, found |-> Unread, user |-> NoUser,
     resolvedUserId |-> Undefined, err |-> NoErr,
     bodyValid |-> TRUE, bodyName |-> Undefined,
     query |-> NoQuery, issued |-> NotIssued,
     res |-> NoRes, sent |-> 0, log |-> <<>>]

(* ------------------------------ jwt.verify ----------------------------- *)
\* jwt.verify called with ignoreExpiration
jwtVerify_ignoreExpiration(token, secret, t) ==
    IF token = Garbage THEN [err |-> "JsonWebTokenError", id |-> Undefined]
    ELSE IF token.key # secret THEN [err |-> "JsonWebTokenError", id |-> Undefined]
    ELSE [err |-> "none", id |-> token.sub]

\* jwt.verify(token, secret): structure, then signature, then expiry; the
\* token counts as expired once the clock has reached exp (clock >= exp)
jwtVerify(token, secret, t) ==
    IF token = Garbage THEN [err |-> "JsonWebTokenError", id |-> Undefined]
    ELSE IF token.key # secret THEN [err |-> "JsonWebTokenError", id |-> Undefined]
    ELSE IF t >= token.exp THEN [err |-> "TokenExpiredError", id |-> Undefined]
    ELSE [err |-> "none", id |-> token.sub]

(* ----------------------------- authenticate ---------------------------- *)
\* the header test without its startsWith half
HeaderRejected_noScheme(h) ==
    \/ h = NoHeader
    \/ h = EmptyHeader

\* !authHeader || !authHeader.startsWith('Bearer ')
HeaderRejected(h) ==
    \/ h = NoHeader
    \/ h = EmptyHeader
    \/ h.prefix # "Bearer "

\* authHeader.substring(7)
Substring7(h) == h.rest

AuthRequiredRes ==
    Json(401, [success |-> FALSE,
               message |-> "Authentication required. Please provide a valid token."])

InactiveRes ==
    Json(401, [success |-> FALSE, message |-> "Invalid or inactive user token."])

\* the catch block answering a malformed or forged token with 400
AuthCatch_badRequest(errName, errMessage) ==
    IF errName = "JsonWebTokenError"
    THEN Json(400, [success |-> FALSE, message |-> "Invalid token."])
    ELSE IF errName = "TokenExpiredError"
    THEN Json(401, [success |-> FALSE,
                    message |-> "Token has expired. Please login again."])
    ELSE Json(500, [success |-> FALSE, message |-> "Authentication error.",
                    error |-> errMessage])

\* the catch block with one message for both token errors
AuthCatch_oneMessage(errName, errMessage) ==
    IF errName = "JsonWebTokenError" \/ errName = "TokenExpiredError"
    THEN Json(401, [success |-> FALSE, message |-> "Invalid token."])
    ELSE Json(500, [success |-> FALSE, message |-> "Authentication error.",
                    error |-> errMessage])

\* the catch block with the two name tests exchanged
AuthCatch_swapped(errName, errMessage) ==
    IF errName = "TokenExpiredError"
    THEN Json(401, [success |-> FALSE, message |-> "Invalid token."])
    ELSE IF errName = "JsonWebTokenError"
    THEN Json(401, [success |-> FALSE,
                    message |-> "Token has expired. Please login again."])
    ELSE Json(500, [success |-> FALSE, message |-> "Authentication error.",
                    error |-> errMessage])

\* the catch block of authenticate
AuthCatch(errName, errMessage) ==
    IF errName = "JsonWebTokenError"
    THEN Json(401, [success |-> FALSE, message |-> "Invalid token."])
    ELSE IF errName = "TokenExpiredError"
    THEN Json(401, [success |-> FALSE,
                    message |-> "Token has expired. Please login again."])
    ELSE Json(500, [success |-> FALSE, message |-> "Authentication error.",
                    error |-> errMessage])

\* the stage that router.use(authenticate) hands over to, per route
StageAfterAuth(route) ==
    IF route \in UserRoutes THEN "authorizeAdmin"
    ELSE IF route = OwnedRoute THEN "authorizeOwnerOrAdmin"
    ELSE "handler"

\* the test without its isActive half
UserRejected_noActive(user) == user = NoUser

\* !user || !user.isActive
UserRejected(user) == user = NoUser \/ ~user.isActive

\* a rejection that tells a missing account from an inactive one
UserRejectedRes_split(user) ==
    IF user = NoUser
    THEN Json(401, [success |-> FALSE, message |-> "User not found."])
    ELSE InactiveRes

\* the response of the rejecting branch: one answer for null and for inactive
UserRejectedRes(user) == InactiveRes

Respond(r, res) ==
    reqs' = [reqs EXCEPT ![r].pc = "done", ![r].sent = @ + 1, ![r].res = res]

\* authenticate up to its await: header check, jwt.verify, findByPk issued
AuthStart(r) ==
    /\ reqs[r].pc = "authenticate"
    /\ LET h == reqs[r].header
           v == jwtVerify(Substring7(h), JWT_SECRET, now)
       IN  IF HeaderRejected(h)
           THEN Respond(r, AuthRequiredRes)
           ELSE IF v.err # "none"
           THEN reqs' = [reqs EXCEPT ![r].pc = "done",
                                     ![r].sent = @ + 1, ![r].res = AuthCatch(v.err, "jwt"),
                                     ![r].log = Append(@, "jwt.verify")]
           ELSE reqs' = [reqs EXCEPT ![r].pc = "findByPk",
                                     ![r].decodedId = v.id,
                                     ![r].log = @ \o <<"jwt.verify",
                                                       "authenticate:User.findByPk">>]
    /\ UNCHANGED <<users, products, now, nodeEnv>>

\* authenticate looking the account up a second time before attaching it
AuthFound_readTwice(r) ==
    /\ reqs[r].pc = "findByPk"
    /\ LET user == users[reqs[r].decodedId]
       IN  IF UserRejected(user)
           THEN reqs' = [reqs EXCEPT ![r].pc = "done", ![r].found = user,
                                     ![r].sent = @ + 1, ![r].res = UserRejectedRes(user)]
           ELSE reqs' = [reqs EXCEPT ![r].pc = StageAfterAuth(reqs[r].route),
                                     ![r].found = user,
                                     ![r].user = user,
                                     ![r].log = @ \o <<"authenticate:User.findByPk",
                                                       "authenticate:next">>]
    /\ UNCHANGED <<users, products, now, nodeEnv>>

\* authenticate answering from a copy of the table taken at start-up
AuthFound_cached(r) ==
    /\ reqs[r].pc = "findByPk"
    /\ LET user == SeedUsers[reqs[r].decodedId]
       IN  IF UserRejected(user)
           THEN reqs' = [reqs EXCEPT ![r].pc = "done", ![r].found = user,
                                     ![r].sent = @ + 1, ![r].res = UserRejectedRes(user)]
           ELSE reqs' = [reqs EXCEPT ![r].pc = StageAfterAuth(reqs[r].route),
                                     ![r].found = user,
                                     ![r].user = user,
                                     ![r].log = Append(@, "authenticate:next")]
    /\ UNCHANGED <<users, products, now, nodeEnv>>

\* authenticate removing the row of an account it rejects
AuthFound_purge(r) ==
    /\ reqs[r].pc = "findByPk"
    /\ LET user == users[reqs[r].decodedId]
       IN  IF UserRejected(user)
           THEN /\ reqs' = [reqs EXCEPT ![r].pc = "done", ![r].found = user,
                                        ![r].sent = @ + 1, ![r].res = UserRejectedRes(user)]
                /\ users' = [users EXCEPT ![reqs[r].decodedId] = NoUser]
           ELSE /\ reqs' = [reqs EXCEPT ![r].pc = StageAfterAuth(reqs[r].route),
                                        ![r].found = user,
                                        ![r].user = user,
                                        ![r].log = Append(@, "authenticate:next")]
                /\ users' = users
    /\ UNCHANGED <<products, now, nodeEnv>>

\* authenticate keeping the account in one variable shared by all requests
AuthFound_sharedContext(r) ==
    /\ reqs[r].pc = "findByPk"
    /\ LET user == users[reqs[r].decodedId]
       IN  IF UserRejected(user)
           THEN reqs' = [reqs EXCEPT ![r].pc = "done", ![r].found = user,
                                     ![r].sent = @ + 1, ![r].res = UserRejectedRes(user)]
           ELSE reqs' = [x \in DOMAIN reqs |->
                           IF x = r
                           THEN [reqs[r] EXCEPT !.pc = StageAfterAuth(reqs[r].route),
                                                !.found = user, !.user = user,
                                                !.log = Append(@, "authenticate:next")]
                           ELSE IF reqs[x].user # NoUser
                           THEN [reqs[x] EXCEPT !.user = user]
                           ELSE reqs[x]]
    /\ UNCHANGED <<users, products, now, nodeEnv>>

\* the store read resolves: reject, or attach req.user and call next()
AuthFound(r) ==
    /\ reqs[r].pc = "findByPk"
    /\ LET user == users[reqs[r].decodedId]
       IN  IF UserRejected(user)
           THEN reqs' = [reqs EXCEPT ![r].pc = "done", ![r].found = user,
                                     ![r].sent = @ + 1, ![r].res = UserRejectedRes(user)]
           ELSE reqs' = [reqs EXCEPT ![r].pc = StageAfterAuth(reqs[r].route),
                                     ![r].found = user,
                                     ![r].user = user,
                                     ![r].log = Append(@, "authenticate:next")]
    /\ UNCHANGED <<users, products, now, nodeEnv>>

\* the catch block swallowing an error it does not recognize
AuthDbError_silent(r) ==
    /\ reqs[r].pc = "findByPk"
    /\ reqs' = [reqs EXCEPT ![r].pc = "done"]
    /\ UNCHANGED <<users, products, now, nodeEnv>>

\* the store read rejects: the catch block answers 500
AuthDbError(r) ==
    /\ reqs[r].pc = "findByPk"
    /\ Respond(r, AuthCatch("SequelizeConnectionError", "db"))
    /\ UNCHANGED <<users, products, now, nodeEnv>>

(* ------------------------------- the gates ----------------------------- *)
ForbiddenAdminRes ==
    Json(403, [success |-> FALSE,
               message |-> "Access denied. Admin privileges required."])

ForbiddenOwnerRes ==
    Json(403, [success |-> FALSE,
               message |-> "Access denied. You can only access your own resources."])

\* the role test turned into a test that a user is attached
AdminRefused_anyUser(user) == user = NoUser

\* req.user.role !== 'admin'
AdminRefused(user) == user.role # "admin"

\* the gate answering 403 without returning: the chain goes on
authorizeAdmin_noReturn(r) ==
    /\ reqs[r].pc = "authorizeAdmin"
    /\ IF AdminRefused(reqs[r].user)
       THEN reqs' = [reqs EXCEPT ![r].pc = "handler", ![r].sent = @ + 1, ![r].res = ForbiddenAdminRes]
       ELSE reqs' = [reqs EXCEPT ![r].pc = "handler",
                                 ![r].log = Append(@, "authorizeAdmin:next")]
    /\ UNCHANGED <<users, products, now, nodeEnv>>

\* the gate reading the role from the users table again
authorizeAdmin_reread(r) ==
    /\ reqs[r].pc = "authorizeAdmin"
    /\ IF AdminRefused(users[reqs[r].user.id])
       THEN Respond(r, ForbiddenAdminRes)
       ELSE reqs' = [reqs EXCEPT ![r].pc = "handler",
                                 ![r].log = Append(@, "authorizeAdmin:next")]
    /\ UNCHANGED <<users, products, now, nodeEnv>>

authorizeAdmin(r) ==
    /\ reqs[r].pc = "authorizeAdmin"
    /\ IF AdminRefused(reqs[r].user)
       THEN Respond(r, ForbiddenAdminRes)
       ELSE reqs' = [reqs EXCEPT ![r].pc = "handler",
                                 ![r].log = Append(@, "authorizeAdmin:next")]
    /\ UNCHANGED <<users, products, now, nodeEnv>>

\* a JavaScript value is truthy unless it is undefined or the empty string
Truthy(v) == v # Undefined /\ v # ""

\* the chain with the body field ahead of the handler-attached value
ResourceUserId_bodyFirst(req) ==
    IF Truthy(req.bodyUserId) THEN req.bodyUserId
    ELSE IF Truthy(req.resourceUserId) THEN req.resourceUserId
    ELSE req.paramsUserId

\* req.resourceUserId || req.body.userId || req.params.userId
ResourceUserId(req) ==
    IF Truthy(req.resourceUserId) THEN req.resourceUserId
    ELSE IF Truthy(req.bodyUserId) THEN req.bodyUserId
    ELSE req.paramsUserId

\* the test without its admin half
OwnerOrAdmin_ownerOnly(user, resourceUserId) == user.id = resourceUserId

\* req.user.role === 'admin' || req.user.id === resourceUserId
OwnerOrAdmin(user, resourceUserId) ==
    user.role = "admin" \/ user.id = resourceUserId

authorizeOwnerOrAdmin(r) ==
    /\ reqs[r].pc = "authorizeOwnerOrAdmin"
    /\ IF OwnerOrAdmin(reqs[r].user, ResourceUserId(reqs[r]))
       THEN reqs' = [reqs EXCEPT ![r].pc = "handler",
                                 ![r].resolvedUserId = ResourceUserId(reqs[r]),
                                 ![r].log = Append(@, "authorizeOwnerOrAdmin:next")]
       ELSE reqs' = [reqs EXCEPT ![r].pc = "done",
                                 ![r].resolvedUserId = ResourceUserId(reqs[r]),
                                 ![r].sent = @ + 1, ![r].res = ForbiddenOwnerRes]
    /\ UNCHANGED <<users, products, now, nodeEnv>>

(* ----------------------------- errorHandler ---------------------------- *)
\* Object.values(err.errors).map(e => e.message).join(', ')
RECURSIVE Join(_)
Join(msgs) ==
    IF msgs = <<>> THEN ""
    ELSE IF Len(msgs) = 1 THEN msgs[1]
    ELSE msgs[1] \o ", " \o Join(Tail(msgs))

\* the uniqueness branch keeping a statusCode the error brings along
NormalizedError_keepStatus(err) ==
    IF err.name = "TokenExpiredError"
    THEN [statusCode |-> 401, message |-> "Token expired."]
    ELSE IF err.name = "JsonWebTokenError"
    THEN [statusCode |-> 401, message |-> "Invalid token."]
    ELSE IF err.name = "SequelizeForeignKeyConstraintError"
    THEN [statusCode |-> 400,
          message |-> "Invalid reference. Related record does not exist."]
    ELSE IF err.name = "SequelizeUniqueConstraintError"
    THEN [statusCode |-> IF err.statusCode # 0 THEN err.statusCode ELSE 409,
          message |-> "Duplicate entry. This record already exists."]
    ELSE IF err.name = "SequelizeValidationError"
    THEN [statusCode |-> 400, message |-> "Validation Error: " \o Join(err.errors)]
    ELSE [statusCode |-> err.statusCode, message |-> err.message]

\* the uniqueness branch echoing the message of the store's error
NormalizedError_echo(err) ==
    IF err.name = "TokenExpiredError"
    THEN [statusCode |-> 401, message |-> "Token expired."]
    ELSE IF err.name = "JsonWebTokenError"
    THEN [statusCode |-> 401, message |-> "Invalid token."]
    ELSE IF err.name = "SequelizeForeignKeyConstraintError"
    THEN [statusCode |-> 400,
          message |-> "Invalid reference. Related record does not exist."]
    ELSE IF err.name = "SequelizeUniqueConstraintError"
    THEN [statusCode |-> 409, message |-> err.message]
    ELSE IF err.name = "SequelizeValidationError"
    THEN [statusCode |-> 400, message |-> "Validation Error: " \o Join(err.errors)]
    ELSE [statusCode |-> err.statusCode, message |-> err.message]

\* the error after the chain of name tests (statusCode 0 stands for undefined)
NormalizedError(err) ==
    IF err.name = "TokenExpiredError"
    THEN [statusCode |-> 401, message |-> "Token expired."]
    ELSE IF err.name = "JsonWebTokenError"
    THEN [statusCode |-> 401, message |-> "Invalid token."]
    ELSE IF err.name = "SequelizeForeignKeyConstraintError"
    THEN [statusCode |-> 400,
          message |-> "Invalid reference. Related record does not exist."]
    ELSE IF err.name = "SequelizeUniqueConstraintError"
    THEN [statusCode |-> 409,
          message |-> "Duplicate entry. This record already exists."]
    ELSE IF err.name = "SequelizeValidationError"
    THEN [statusCode |-> 400, message |-> "Validation Error: " \o Join(err.errors)]
    ELSE [statusCode |-> err.statusCode, message |-> err.message]

\* the handler with the || 500 and || 'Server Error' defaults applied always
errorHandler_generic(err, env) ==
    LET error == NormalizedError(err)
    IN  IF env = "development"
        THEN Json(500, [success |-> FALSE, message |-> "Server Error",
                        stack |-> err.stack])
        ELSE Json(500, [success |-> FALSE, message |-> "Server Error"])

\* the handler testing NODE_ENV !== 'production' for the stack
errorHandler_stackUnlessProduction(err, env) ==
    LET error == NormalizedError(err)
        status == IF error.statusCode # 0 THEN error.statusCode ELSE 500
        message == IF error.message # "" THEN error.message ELSE "Server Error"
    IN  IF env # "production"
        THEN Json(status, [success |-> FALSE, message |-> message,
                           stack |-> err.stack])
        ELSE Json(status, [success |-> FALSE, message |-> message])

errorHandler(err, env) ==
    LET error == NormalizedError(err)
        status == IF error.statusCode # 0 THEN error.statusCode ELSE 500
        message == IF error.message # "" THEN error.message ELSE "Server Error"
    IN  IF env = "development"
        THEN Json(status, [success |-> FALSE, message |-> message,
                           stack |-> err.stack])
        ELSE Json(status, [success |-> FALSE, message |-> message])

\* the errors handed to next(error): the store's and the token library's
\* classes, a body-parser error (it carries its own statusCode) and a plain
\* Error, with the messages, statusCode properties and field messages they
\* can carry
ErrorNames ==
    {"SequelizeValidationError", "SequelizeUniqueConstraintError",
     "SequelizeForeignKeyConstraintError", "JsonWebTokenError",
     "TokenExpiredError", "SequelizeDatabaseError", "SyntaxError", "Error"}
ClassifiedNames ==
    {"SequelizeValidationError", "SequelizeUniqueConstraintError",
     "SequelizeForeignKeyConstraintError", "JsonWebTokenError",
     "TokenExpiredError"}
ErrMessages == {"", "email must be unique", "username must be unique"}
ErrStatusCodes == {0, 400, 413}
FieldMessageLists ==
    {<<"name cannot be null">>, <<"name cannot be null", "price must be a number">>}
Errors ==
    {Err(n, m, c, e) : n \in ErrorNames, m \in ErrMessages,
                       c \in ErrStatusCodes, e \in FieldMessageLists}

\* errors a read of the users table can reject with
ReadErrors == {Err("SequelizeConnectionError", "connect ECONNREFUSED", 0, <<>>)}

(* --------------------------- the users routes -------------------------- *)
\* attributes: { exclude: ['password'] }
ExcludePassword(u) == [id |-> u.id, role |-> u.role, isActive |-> u.isActive]

(* ------------------------------ pagination ----------------------------- *)
DefaultPage == 1
DefaultLimit == 10

\* parseInt(v) || d: NaN and 0 are falsy
OrDefault(v, d) == IF v.nan \/ v.n = 0 THEN d ELSE v.n

PageOf(query) == OrDefault(query.page, DefaultPage)
LimitOf(query) == OrDefault(query.limit, DefaultLimit)

\* (page - 1) * limit
Offset(page, limit) == (page - 1) * limit

\* Math.ceil(count / limit) for count >= 0 and limit # 0
Pages(count, limit) ==
    IF limit > 0 THEN (count + limit - 1) \div limit
    ELSE -(count \div (-limit))

\* the rows a query with this offset and limit returns
Slice(rows, offset, limit) ==
    SubSeq(rows, offset + 1,
           IF offset + limit < Len(rows) THEN offset + limit ELSE Len(rows))

\* the store rejects a negative LIMIT or OFFSET
StoreRejects(limit, offset) == limit < 0 \/ offset < 0

PageErrors ==
    {Err("SequelizeDatabaseError", "LIMIT must not be negative", 0, <<>>),
     Err("SequelizeDatabaseError", "OFFSET must not be negative", 0, <<>>)}

PageError(limit, offset) ==
    IF limit < 0
    THEN Err("SequelizeDatabaseError", "LIMIT must not be negative", 0, <<>>)
    ELSE Err("SequelizeDatabaseError", "OFFSET must not be negative", 0, <<>>)

Pagination(page, limit, count) ==
    [page |-> page, limit |-> limit, total |-> count, pages |-> Pages(count, limit)]

\* order: [['createdAt', 'DESC']]: the seed creates a1 before a2, p1 before p2
UsersByCreatedAtDesc == <<"a2", "a1">>
ProductsByCreatedAtDesc == <<"p2", "p1">>

\* the rows of the users table, newest first, without the password column
UserRows ==
    LET ids == SelectSeq(UsersByCreatedAtDesc, LAMBDA a : users[a] # NoUser)
    IN  [i \in 1..Len(ids) |-> ExcludePassword(users[ids[i]])]

\* the 200 of GET /users
UsersListRes(query) ==
    LET page == PageOf(query)
        limit == LimitOf(query)
    IN  Json(200, [success |-> TRUE,
                   data |-> [users |-> Slice(UserRows, Offset(page, limit), limit),
                             pagination |-> Pagination(page, limit, Len(UserRows))]])

\* the handler answering a store failure itself instead of next(error)
UsersList_adHoc(r) ==
    /\ reqs[r].pc = "handler"
    /\ reqs[r].route = "GET /users"
    /\ LET limit == LimitOf(reqs[r].query)
           offset == Offset(PageOf(reqs[r].query), limit)
       IN  \/ /\ ~StoreRejects(limit, offset)
              /\ reqs' = [reqs EXCEPT
                     ![r].pc = "done",
                     ![r].issued = Issued(limit, offset),
                     ![r].log = Append(@, "handler:User.findAndCountAll"),
                     ![r].sent = @ + 1,
                     ![r].res = UsersListRes(reqs[r].query)]
           \/ \E e \in IF StoreRejects(limit, offset)
                       THEN {PageError(limit, offset)} ELSE ReadErrors :
                 reqs' = [reqs EXCEPT
                     ![r].pc = "done",
                     ![r].issued = Issued(limit, offset),
                     ![r].log = Append(@, "handler:User.findAndCountAll"),
                     ![r].err = e,
                     ![r].sent = @ + 1,
                     ![r].res = Json(500, [success |-> FALSE, message |-> e.message])]
    /\ UNCHANGED <<users, products, now, nodeEnv>>

\* GET /users: findAndCountAll with limit and offset, then 200 with the page
\* of rows; a rejected query goes to next(error)
UsersList(r) ==
    /\ reqs[r].pc = "handler"
    /\ reqs[r].route = "GET /users"
    /\ LET limit == LimitOf(reqs[r].query)
           offset == Offset(PageOf(reqs[r].query), limit)
       IN  \/ /\ ~StoreRejects(limit, offset)
              /\ reqs' = [reqs EXCEPT
                     ![r].pc = "done",
                     ![r].issued = Issued(limit, offset),
                     ![r].log = Append(@, "handler:User.findAndCountAll"),
                     ![r].sent = @ + 1,
                     ![r].res = UsersListRes(reqs[r].query)]
           \/ \E e \in IF StoreRejects(limit, offset)
                       THEN {PageError(limit, offset)} ELSE ReadErrors :
                 reqs' = [reqs EXCEPT
                     ![r].pc = "done",
                     ![r].issued = Issued(limit, offset),
                     ![r].log = @ \o <<"handler:User.findAndCountAll", "next(error)",
                                    "errorHandler">>,
                     ![r].err = e,
                     ![r].sent = @ + 1,
                     ![r].res = errorHandler(e, nodeEnv)]
    /\ UNCHANGED <<users, products, now, nodeEnv>>

\* GET /users/:id: findByPk, then 404 or 200 with the row
UsersGetById(r) ==
    /\ reqs[r].pc = "handler"
    /\ reqs[r].route = "GET /users/:id"
    /\ \/ LET user == users[reqs[r].paramsId]
          IN  reqs' = [reqs EXCEPT
                  ![r].pc = "done",
                  ![r].log = Append(@, "handler:User.findByPk"),
                  ![r].sent = @ + 1, ![r].res = IF user = NoUser
                             THEN Json(404, [success |-> FALSE,
                                             message |-> "User not found"])
                             ELSE Json(200, [success |-> TRUE,
                                             data |-> [user |-> ExcludePassword(user)]])]
       \/ \E e \in ReadErrors :
             reqs' = [reqs EXCEPT
                  ![r].pc = "done",
                  ![r].log = @ \o <<"handler:User.findByPk", "next(error)", "errorHandler">>,
                  ![r].err = e,
                  ![r].sent = @ + 1, ![r].res = errorHandler(e, nodeEnv)]
    /\ UNCHANGED <<users, products, now, nodeEnv>>

(* -------------------------- the products routes ------------------------ *)
\* a handler sends res after the calls it made
Answered(q, calls, res) ==
    [q EXCEPT !.pc = "done", !.log = @ \o calls, !.sent = @ + 1, !.res = res]

\* a store call threw: the catch block calls next(error), errorHandler answers
Failed(q, calls, e) ==
    [q EXCEPT !.pc = "done",
              !.log = @ \o calls \o <<"next(error)", "errorHandler">>,
              !.err = e, !.sent = @ + 1, !.res = errorHandler(e, nodeEnv)]

\* query('page').optional().isInt({min: 1}),
\* query('limit').optional().isInt({min: 1, max: 100})
MaxLimit == 100
QueryErrors(query) ==
    (IF query.page.nan \/ query.page.n >= 1
     THEN <<>> ELSE <<"Page must be a positive integer">>)
    \o (IF query.limit.nan \/ (query.limit.n >= 1 /\ query.limit.n <= MaxLimit)
        THEN <<>> ELSE <<"Limit must be between 1 and 100">>)

ValidationFailedRes(errors) ==
    Json(400, [success |-> FALSE, message |-> "Validation failed", errors |-> errors])

BodyErrors(q) ==
    IF q.bodyValid THEN <<>> ELSE <<"Price must be a positive number">>

ProductNotFoundRes ==
    Json(404, [success |-> FALSE, message |-> "Product not found"])

ProductForbiddenRes(verb) ==
    Json(403, [success |-> FALSE,
               message |-> "Access denied. You can only " \o verb
                               \o " your own products."])

\* name ILIKE '%search%' on the names and search values of the model
ILike(name, search) ==
    \/ search = "n"
    \/ search = "N1" /\ name = "n1"
    \/ search = "n0" /\ name = "n0"

ProductJson(p) ==
    [id |-> p, userId |-> products[p].userId, name |-> products[p].name,
     category |-> products[p].category]

\* the where clause without the owner restriction for non-admins
Where_everyone(q, row) ==
    /\ row # NoProduct
    /\ Truthy(q.query.category) => row.category = q.query.category
    /\ Truthy(q.query.search) => ILike(row.name, q.query.search)

\* the where clause of GET /products
Where(q, row) ==
    /\ row # NoProduct
    /\ Truthy(q.query.category) => row.category = q.query.category
    /\ Truthy(q.query.search) => ILike(row.name, q.query.search)
    /\ q.user.role # "admin" => row.userId = q.user.id

ProductRows(q) ==
    LET ids == SelectSeq(ProductsByCreatedAtDesc, LAMBDA p : Where(q, products[p]))
    IN  [i \in 1..Len(ids) |-> ProductJson(ids[i])]

ProductsListRes(q) ==
    LET page == PageOf(q.query)
        limit == LimitOf(q.query)
        rows == ProductRows(q)
    IN  Json(200, [success |-> TRUE,
                   data |-> [products |-> Slice(rows, Offset(page, limit), limit),
                             pagination |-> Pagination(page, limit, Len(rows))]])

\* GET /products: validation, findAndCountAll over the where clause
ProductsList(r) ==
    /\ reqs[r].pc = "handler"
    /\ reqs[r].route = "GET /products"
    /\ LET q == reqs[r]
           limit == LimitOf(q.query)
           offset == Offset(PageOf(q.query), limit)
           call == <<"validationResult", "handler:Product.findAndCountAll">>
       IN  IF QueryErrors(q.query) # <<>>
           THEN reqs' = [reqs EXCEPT ![r] =
                    Answered(q, <<"validationResult">>,
                             ValidationFailedRes(QueryErrors(q.query)))]
           ELSE \/ /\ ~StoreRejects(limit, offset)
                   /\ reqs' = [reqs EXCEPT ![r] =
                          [Answered(q, call, ProductsListRes(q))
                               EXCEPT !.issued = Issued(limit, offset)]]
                \/ \E e \in IF StoreRejects(limit, offset)
                            THEN {PageError(limit, offset)} ELSE ReadErrors :
                      reqs' = [reqs EXCEPT ![r] =
                          [Failed(q, call, e) EXCEPT !.issued = Issued(limit, offset)]]
    /\ UNCHANGED <<users, products, now, nodeEnv>>

\* req.user.role !== 'admin' && product.userId !== req.user.id
Denied(user, product) == user.role # "admin" /\ product.userId # user.id

\* GET /products/:id: findByPk, 404, 403, or 200 with the product
ProductsGetById(r) ==
    /\ reqs[r].pc = "handler"
    /\ reqs[r].route = "GET /products/:id"
    /\ LET q == reqs[r]
           product == products[q.paramsId]
           call == <<"handler:Product.findByPk">>
       IN  \/ reqs' = [reqs EXCEPT ![r] =
                  IF product = NoProduct THEN Answered(q, call, ProductNotFoundRes)
                  ELSE IF Denied(q.user, product)
                  THEN Answered(q, call, ProductForbiddenRes("view"))
                  ELSE Answered(q, call,
                           Json(200, [success |-> TRUE,
                                      data |-> [product |-> ProductJson(q.paramsId)]]))]
           \/ \E e \in ReadErrors : reqs' = [reqs EXCEPT ![r] = Failed(q, call, e)]
    /\ UNCHANGED <<users, products, now, nodeEnv>>

\* productData with the body's userId left to win
ProductData_bodyWins(q) ==
    Product(IF q.bodyUserId # Undefined THEN q.bodyUserId ELSE q.user.id,
            q.bodyName, "c0")

\* productData = { ...req.body, userId: req.user.id }
ProductData(q) == Product(q.user.id, q.bodyName, "c0")

\* POST /products: validation, Product.create, 201
ProductsCreate(r) ==
    /\ reqs[r].pc = "handler"
    /\ reqs[r].route = "POST /products"
    /\ LET q == reqs[r]
           call == <<"validationResult", "handler:Product.create">>
       IN  IF BodyErrors(q) # <<>>
           THEN /\ reqs' = [reqs EXCEPT ![r] =
                       Answered(q, <<"validationResult">>,
                                ValidationFailedRes(BodyErrors(q)))]
                /\ products' = products
           ELSE \/ \E p \in ProductIds :
                      /\ products[p] = NoProduct
                      /\ products' = [products EXCEPT ![p] = ProductData(q)]
                      /\ reqs' = [reqs EXCEPT ![r] =
                             [Answered(q, call,
                                  Json(201, [success |-> TRUE,
                                             message |-> "Product created successfully",
                                             data |-> [product |->
                                                 [id |-> p,
                                                  userId |-> ProductData(q).userId,
                                                  name |-> ProductData(q).name,
                                                  category |-> ProductData(q).category]]]))
                                  EXCEPT !.paramsId = p]]
                \/ /\ \E e \in ReadErrors : reqs' = [reqs EXCEPT ![r] = Failed(q, call, e)]
                   /\ products' = products
    /\ UNCHANGED <<users, now, nodeEnv>>

\* product.update(req.body): every column the body names is written
Updated(row, q) ==
    [row EXCEPT !.name = IF q.bodyName # Undefined THEN q.bodyName ELSE @,
                !.userId = IF q.bodyUserId # Undefined THEN q.bodyUserId ELSE @]

\* PUT /products/:id without the ownership test
ProductsUpdate_noOwnerTest(r) ==
    /\ reqs[r].pc = "handler"
    /\ reqs[r].route = "PUT /products/:id"
    /\ LET q == reqs[r]
           product == products[q.paramsId]
           find == <<"validationResult", "handler:Product.findByPk">>
           write == find \o <<"handler:product.update", "handler:product.reload">>
       IN  IF BodyErrors(q) # <<>>
           THEN /\ reqs' = [reqs EXCEPT ![r] =
                       Answered(q, <<"validationResult">>,
                                ValidationFailedRes(BodyErrors(q)))]
                /\ products' = products
           ELSE IF product = NoProduct
           THEN /\ reqs' = [reqs EXCEPT ![r] = Answered(q, find, ProductNotFoundRes)]
                /\ products' = products
           ELSE /\ products' = [products EXCEPT ![q.paramsId] = Updated(product, q)]
                /\ reqs' = [reqs EXCEPT ![r] =
                       Answered(q, write,
                           Json(200, [success |-> TRUE,
                                      message |-> "Product updated successfully",
                                      data |-> [product |->
                                          [id |-> q.paramsId,
                                           userId |-> Updated(product, q).userId,
                                           name |-> Updated(product, q).name,
                                           category |-> product.category]]]))]
    /\ UNCHANGED <<users, now, nodeEnv>>

\* PUT /products/:id with the existence test ahead of the validation
ProductsUpdate_findFirst(r) ==
    /\ reqs[r].pc = "handler"
    /\ reqs[r].route = "PUT /products/:id"
    /\ LET q == reqs[r]
           product == products[q.paramsId]
           find == <<"handler:Product.findByPk", "validationResult">>
           write == find \o <<"handler:product.update", "handler:product.reload">>
       IN  \/ IF product = NoProduct
              THEN /\ reqs' = [reqs EXCEPT ![r] =
                          Answered(q, <<"handler:Product.findByPk">>, ProductNotFoundRes)]
                   /\ products' = products
              ELSE IF BodyErrors(q) # <<>>
              THEN /\ reqs' = [reqs EXCEPT ![r] =
                          Answered(q, find, ValidationFailedRes(BodyErrors(q)))]
                   /\ products' = products
              ELSE IF Denied(q.user, product)
              THEN /\ reqs' = [reqs EXCEPT ![r] =
                          Answered(q, find, ProductForbiddenRes("update"))]
                   /\ products' = products
              ELSE \/ /\ products' = [products EXCEPT ![q.paramsId] = Updated(product, q)]
                      /\ reqs' = [reqs EXCEPT ![r] =
                             Answered(q, write,
                                 Json(200, [success |-> TRUE,
                                            message |-> "Product updated successfully",
                                            data |-> [product |->
                                                [id |-> q.paramsId,
                                                 userId |-> Updated(product, q).userId,
                                                 name |-> Updated(product, q).name,
                                                 category |-> product.category]]]))]
                   \/ /\ products' = [products EXCEPT ![q.paramsId] = Updated(product, q)]
                      /\ \E e \in ReadErrors :
                            reqs' = [reqs EXCEPT ![r] = Failed(q, write, e)]
           \/ /\ \E e \in ReadErrors :
                    reqs' = [reqs EXCEPT ![r] =
                                Failed(q, <<"handler:Product.findByPk">>, e)]
              /\ products' = products
    /\ UNCHANGED <<users, now, nodeEnv>>

\* PUT /products/:id: validation, findByPk, 404, 403, update and reload, 200
ProductsUpdate(r) ==
    /\ reqs[r].pc = "handler"
    /\ reqs[r].route = "PUT /products/:id"
    /\ LET q == reqs[r]
           product == products[q.paramsId]
           find == <<"validationResult", "handler:Product.findByPk">>
           write == find \o <<"handler:product.update", "handler:product.reload">>
       IN  IF BodyErrors(q) # <<>>
           THEN /\ reqs' = [reqs EXCEPT ![r] =
                       Answered(q, <<"validationResult">>,
                                ValidationFailedRes(BodyErrors(q)))]
                /\ products' = products
           ELSE \/ IF product = NoProduct
                   THEN /\ reqs' = [reqs EXCEPT ![r] =
                               Answered(q, find, ProductNotFoundRes)]
                        /\ products' = products
                   ELSE IF Denied(q.user, product)
                   THEN /\ reqs' = [reqs EXCEPT ![r] =
                               Answered(q, find, ProductForbiddenRes("update"))]
                        /\ products' = products
                   ELSE \/ /\ products' = [products EXCEPT ![q.paramsId] =
                                               Updated(product, q)]
                           /\ reqs' = [reqs EXCEPT ![r] =
                                  Answered(q, write,
                                      Json(200, [success |-> TRUE,
                                                 message |-> "Product updated successfully",
                                                 data |-> [product |->
                                                     [id |-> q.paramsId,
                                                      userId |-> Updated(product, q).userId,
                                                      name |-> Updated(product, q).name,
                                                      category |-> product.category]]]))]
                        \* update committed, reload threw
                        \/ /\ products' = [products EXCEPT ![q.paramsId] =
                                               Updated(product, q)]
                           /\ \E e \in ReadErrors :
                                 reqs' = [reqs EXCEPT ![r] = Failed(q, write, e)]
                \* findByPk threw
                \/ /\ \E e \in ReadErrors :
                         reqs' = [reqs EXCEPT ![r] = Failed(q, find, e)]
                   /\ products' = products
    /\ UNCHANGED <<users, now, nodeEnv>>

\* DELETE /products/:id: findByPk, 404, 403, destroy, 200
ProductsDelete(r) ==
    /\ reqs[r].pc = "handler"
    /\ reqs[r].route = "DELETE /products/:id"
    /\ LET q == reqs[r]
           product == products[q.paramsId]
           find == <<"handler:Product.findByPk">>
           write == find \o <<"handler:product.destroy">>
       IN  \/ IF product = NoProduct
              THEN /\ reqs' = [reqs EXCEPT ![r] = Answered(q, find, ProductNotFoundRes)]
                   /\ products' = products
              ELSE IF Denied(q.user, product)
              THEN /\ reqs' = [reqs EXCEPT ![r] =
                          Answered(q, find, ProductForbiddenRes("delete"))]
                   /\ products' = products
              ELSE /\ products' = [products EXCEPT ![q.paramsId] = NoProduct]
                   /\ reqs' = [reqs EXCEPT ![r] =
                          Answered(q, write,
                              Json(200, [success |-> TRUE,
                                         message |-> "Product deleted successfully"]))]
           \/ /\ \E e \in ReadErrors : reqs' = [reqs EXCEPT ![r] = Failed(q, find, e)]
              /\ products' = products
    /\ UNCHANGED <<users, now, nodeEnv>>

(* ------------------- next(error) and the 404 handler ------------------- *)
\* a stage of a request calls next(error) with error e
NextError(r) ==
    /\ reqs[r].pc = "idle"
    /\ \E e \in Errors :
          reqs' = [reqs EXCEPT ![r] =
                      [IdleReq EXCEPT !.pc = "errorHandler", !.route = "next(error)",
                                      !.err = e, !.log = <<"next(error)">>]]
    /\ UNCHANGED <<users, products, now, nodeEnv>>

\* app.use(errorHandler): the error is normalized and answered
HandleError(r) ==
    /\ reqs[r].pc = "errorHandler"
    /\ reqs' = [reqs EXCEPT ![r].pc = "done",
                            ![r].log = Append(@, "errorHandler"),
                            ![r].sent = @ + 1, ![r].res = errorHandler(reqs[r].err, nodeEnv)]
    /\ UNCHANGED <<users, products, now, nodeEnv>>

\* a request that no route matches reaches the 404 handler
NotFound(r) ==
    /\ reqs[r].pc = "idle"
    /\ reqs' = [reqs EXCEPT ![r] =
                    [IdleReq EXCEPT !.pc = "done", !.route = "*",
                                    !.sent = 1,
                                    !.res = Json(404, [success |-> FALSE,
                                                       message |-> "Route not found",
                                                       path |-> "/api/v2"])]]
    /\ UNCHANGED <<users, products, now, nodeEnv>>

(* ------------------------ requests and environment --------------------- *)
\* a request for one of the users routes enters router.use(authenticate)
Arrive(r) ==
    /\ reqs[r].pc = "idle"
    /\ \E route \in UserRoutes, h \in Headers, id \in AccountIds :
          reqs' = [reqs EXCEPT ![r] =
                      [IdleReq EXCEPT !.pc = "authenticate", !.route = route,
                                      !.header = h,
                                      !.paramsId = IF route = "GET /users/:id"
                                                   THEN id ELSE Undefined]]
    /\ UNCHANGED <<users, products, now, nodeEnv>>

\* a request for product p enters a route guarded by the ownership gate; an
\* earlier stage may have attached the row's userId as req.resourceUserId
ArriveOwned(r) ==
    /\ reqs[r].pc = "idle"
    /\ \E h \in GateHeaders, p \in ProductIds,
          attached \in BOOLEAN, b \in FieldVals, q \in FieldVals :
          reqs' = [reqs EXCEPT ![r] =
                      [IdleReq EXCEPT !.pc = "authenticate", !.route = OwnedRoute,
                                      !.header = h, !.paramsId = p,
                                      !.resourceUserId = IF attached
                                                         THEN products[p].userId
                                                         ELSE Undefined,
                                      !.bodyUserId = b, !.paramsUserId = q]]
    /\ UNCHANGED <<users, products, now, nodeEnv>>

\* the query strings of the GET /products requests followed
ListQueries ==
    [page : {NaN, QInt(2)}, limit : {NaN, QInt(1)},
     category : {Undefined, "c0"}, search : {Undefined, "N1"}]

\* a request for one of the products routes enters router.use(authenticate)
ArriveProducts(r) ==
    /\ reqs[r].pc = "idle"
    /\ \E route \in ProductRoutes, h \in GateHeaders :
          LET base == [IdleReq EXCEPT !.pc = "authenticate", !.route = route,
                                      !.header = h]
          IN  \/ /\ route = "GET /products"
                 /\ \E qs \in ListQueries :
                       reqs' = [reqs EXCEPT ![r] = [base EXCEPT !.query = qs]]
              \/ /\ route \in {"GET /products/:id", "DELETE /products/:id"}
                 /\ \E p \in ProductIds :
                       reqs' = [reqs EXCEPT ![r] = [base EXCEPT !.paramsId = p]]
              \/ /\ route = "POST /products"
                 /\ \E valid \in BOOLEAN, name \in ProductNames,
                       owner \in AccountIds \cup {Undefined} :
                       reqs' = [reqs EXCEPT ![r] =
                                   [base EXCEPT !.bodyValid = valid, !.bodyName = name,
                                                !.bodyUserId = owner]]
              \/ /\ route = "PUT /products/:id"
                 /\ \E p \in ProductIds, valid \in BOOLEAN,
                       name \in ProductNames \cup {Undefined},
                       owner \in AccountIds \cup {Undefined} :
                       reqs' = [reqs EXCEPT ![r] =
                                   [base EXCEPT !.paramsId = p, !.bodyValid = valid,
                                                !.bodyName = name, !.bodyUserId = owner]]
    /\ UNCHANGED <<users, products, now, nodeEnv>>

\* the response is out (or the gated request went on): the context is dropped
Finished(req) ==
    req.pc = "done" \/ (req.pc = "handler" /\ req.route = OwnedRoute)

Recycle(r) ==
    /\ Finished(reqs[r])
    /\ reqs' = [reqs EXCEPT ![r] = IdleReq]
    /\ UNCHANGED <<users, products, now, nodeEnv>>

Tick ==
    /\ now < MaxTime
    /\ now' = now + 1
    /\ UNCHANGED <<users, products, nodeEnv, reqs>>

\* a role change or (de)activation of an account row
UpdateAccount(a) ==
    /\ users[a] # NoUser
    /\ \E ro \in Roles, act \in BOOLEAN :
          /\ Account(a, ro, act) # users[a]
          /\ users' = [users EXCEPT ![a] = Account(a, ro, act)]
    /\ UNCHANGED <<products, now, nodeEnv, reqs>>

\* an account row is removed from the table
RemoveAccount(a) ==
    /\ users[a] # NoUser
    /\ users' = [users EXCEPT ![a] = NoUser]
    /\ UNCHANGED <<products, now, nodeEnv, reqs>>

Init ==
    /\ users = SeedUsers
    /\ products = SeedProducts
    /\ now = 0
    /\ nodeEnv \in {"development", "production"}
    /\ reqs = [r \in ReqIds |-> IdleReq]

Next ==
    \/ \E r \in DOMAIN reqs : Arrive(r)
    \/ \E r \in DOMAIN reqs : AuthStart(r)
    \/ \E r \in DOMAIN reqs : AuthFound(r)
    \/ \E r \in DOMAIN reqs : AuthDbError(r)
    \/ \E r \in DOMAIN reqs : authorizeAdmin(r)
    \/ \E r \in DOMAIN reqs : UsersList(r)
    \/ \E r \in DOMAIN reqs : UsersGetById(r)
    \/ \E r \in DOMAIN reqs : Recycle(r)
    \/ Tick
    \/ \E a \in AccountIds : UpdateAccount(a)
    \/ \E a \in AccountIds : RemoveAccount(a)

Spec == Init /\ [][Next]_vars

\* the ownership gate behind authenticate, on a database whose products
\* belong to both accounts
InitGate ==
    /\ users = SeedUsers
    /\ products = OwnedProducts
    /\ now = 0
    /\ nodeEnv = "production"
    /\ reqs = [r \in ReqIds |-> IdleReq]

NextGate ==
    \/ \E r \in DOMAIN reqs : ArriveOwned(r)
    \/ \E r \in DOMAIN reqs : AuthStart(r)
    \/ \E r \in DOMAIN reqs : AuthFound(r)
    \/ \E r \in DOMAIN reqs : AuthDbError(r)
    \/ \E r \in DOMAIN reqs : authorizeOwnerOrAdmin(r)
    \/ \E r \in DOMAIN reqs : Recycle(r)
    \/ \E a \in AccountIds : UpdateAccount(a)

SpecGate == InitGate /\ [][NextGate]_vars

\* errors travelling to errorHandler, in each NODE_ENV
InitErr ==
    /\ users = SeedUsers
    /\ products = SeedProducts
    /\ now = 0
    /\ nodeEnv \in {"development", "production", "test"}
    /\ reqs = [r \in ReqIds |-> IdleReq]

NextErr ==
    \/ \E r \in DOMAIN reqs : NextError(r)
    \/ \E r \in DOMAIN reqs : HandleError(r)
    \/ \E r \in DOMAIN reqs : Recycle(r)

SpecErr == InitErr /\ [][NextErr]_vars

\* every stage of the application together
InitAll ==
    /\ users = SeedUsers
    /\ products = OwnedProducts
    /\ now = 0
    /\ nodeEnv \in {"development", "production", "test"}
    /\ reqs = [r \in ReqIds |-> IdleReq]

NextAll ==
    \/ \E r \in DOMAIN reqs : Arrive(r)
    \/ \E r \in DOMAIN reqs : ArriveOwned(r)
    \/ \E r \in DOMAIN reqs : NextError(r)
    \/ \E r \in DOMAIN reqs : NotFound(r)
    \/ \E r \in DOMAIN reqs : AuthStart(r)
    \/ \E r \in DOMAIN reqs : AuthFound(r)
    \/ \E r \in DOMAIN reqs : AuthDbError(r)
    \/ \E r \in DOMAIN reqs : authorizeAdmin(r)
    \/ \E r \in DOMAIN reqs : authorizeOwnerOrAdmin(r)
    \/ \E r \in DOMAIN reqs : UsersList(r)
    \/ \E r \in DOMAIN reqs : UsersGetById(r)
    \/ \E r \in DOMAIN reqs : HandleError(r)
    \/ \E r \in DOMAIN reqs : Recycle(r)
    \/ Tick
    \/ \E a \in AccountIds : UpdateAccount(a)
    \/ \E a \in AccountIds : RemoveAccount(a)

SpecAll == InitAll /\ [][NextAll]_vars

\* the products routes behind authenticate
InitProducts ==
    /\ users = SeedUsers
    /\ products = OwnedProducts
    /\ now = 0
    /\ nodeEnv = "production"
    /\ reqs = [r \in ReqIds |-> IdleReq]

NextProducts ==
    \/ \E r \in DOMAIN reqs : ArriveProducts(r)
    \/ \E r \in DOMAIN reqs : AuthStart(r)
    \/ \E r \in DOMAIN reqs : AuthFound(r)
    \/ \E r \in DOMAIN reqs : AuthDbError(r)
    \/ \E r \in DOMAIN reqs : ProductsList(r)
    \/ \E r \in DOMAIN reqs : ProductsGetById(r)
    \/ \E r \in DOMAIN reqs : ProductsCreate(r)
    \/ \E r \in DOMAIN reqs : ProductsUpdate(r)
    \/ \E r \in DOMAIN reqs : ProductsDelete(r)
    \/ \E r \in DOMAIN reqs : Recycle(r)

SpecProducts == InitProducts /\ [][NextProducts]_vars

\* every stage of a request runs once it can: the event loop runs each
\* callback, and every store call returns or throws
RequestStep(r) ==
    \/ AuthStart(r)
    \/ AuthFound(r)
    \/ AuthDbError(r)
    \/ ProductsList(r)
    \/ ProductsGetById(r)
    \/ ProductsCreate(r)
    \/ ProductsUpdate(r)
    \/ ProductsDelete(r)

SpecProductsFair ==
    SpecProducts /\ \A r \in ReqIds : WF_vars(RequestStep(r))

\* the two list routes, while account rows change under requests in flight
ArriveList(r) ==
    /\ reqs[r].pc = "idle"
    /\ \E route \in {"GET /users", "GET /products"}, h \in GateHeaders,
          search \in {Undefined, "N1"} :
          reqs' = [reqs EXCEPT ![r] =
                      [IdleReq EXCEPT !.pc = "authenticate", !.route = route,
                                      !.header = h,
                                      !.query = [NoQuery EXCEPT !.search =
                                                    IF route = "GET /products"
                                                    THEN search ELSE Undefined]]]
    /\ UNCHANGED <<users, products, now, nodeEnv>>

NextInFlight ==
    \/ \E r \in DOMAIN reqs : ArriveList(r)
    \/ \E r \in DOMAIN reqs : AuthStart(r)
    \/ \E r \in DOMAIN reqs : AuthFound(r)
    \/ \E r \in DOMAIN reqs : AuthDbError(r)
    \/ \E r \in DOMAIN reqs : authorizeAdmin(r)
    \/ \E r \in DOMAIN reqs : UsersList(r)
    \/ \E r \in DOMAIN reqs : ProductsList(r)
    \/ \E r \in DOMAIN reqs : Recycle(r)
    \/ \E a \in AccountIds : UpdateAccount(a)

SpecInFlight == InitProducts /\ [][NextInFlight]_vars

\* two requests in flight at once, each with a token of its own
TwoReqIds == {1, 2}

ArriveTwo(r) ==
    /\ reqs[r].pc = "idle"
    /\ \E route \in {"GET /users", "GET /products"}, sub \in AccountIds :
          reqs' = [reqs EXCEPT ![r] =
                      [IdleReq EXCEPT !.pc = "authenticate", !.route = route,
                                      !.header = [prefix |-> "Bearer ",
                                                  rest |-> [sub |-> sub, key |-> JWT_SECRET,
                                                            exp |-> MaxTime]]]]
    /\ UNCHANGED <<users, products, now, nodeEnv>>

InitTwo ==
    /\ users = SeedUsers
    /\ products = OwnedProducts
    /\ now = 0
    /\ nodeEnv = "production"
    /\ reqs = [r \in TwoReqIds |-> IdleReq]

NextTwo ==
    \/ \E r \in DOMAIN reqs : ArriveTwo(r)
    \/ \E r \in DOMAIN reqs : AuthStart(r)
    \/ \E r \in DOMAIN reqs : AuthFound(r)
    \/ \E r \in DOMAIN reqs : authorizeAdmin(r)
    \/ \E r \in DOMAIN reqs : UsersList(r)
    \/ \E r \in DOMAIN reqs : ProductsList(r)
    \/ \E r \in DOMAIN reqs : Recycle(r)

SpecTwo == InitTwo /\ [][NextTwo]_vars

\* the two list routes called by the admin with integer page and limit values
QueryInts == {-2, -1, 0, 1, 2, 3, 100, 101}
QueryValues == {NaN} \cup {QInt(n) : n \in QueryInts}

ArrivePage(r) ==
    /\ reqs[r].pc = "idle"
    /\ \E route \in {"GET /users", "GET /products"}, page \in QueryValues,
          limit \in QueryValues :
          reqs' = [reqs EXCEPT ![r] =
                      [IdleReq EXCEPT !.pc = "authenticate", !.route = route,
                                      !.header = [prefix |-> "Bearer ",
                                                  rest |-> [sub |-> "a1", key |-> JWT_SECRET,
                                                            exp |-> MaxTime]],
                                      !.query = [NoQuery EXCEPT !.page = page,
                                                                !.limit = limit]]]
    /\ UNCHANGED <<users, products, now, nodeEnv>>

NextPage ==
    \/ \E r \in DOMAIN reqs : ArrivePage(r)
    \/ \E r \in DOMAIN reqs : AuthStart(r)
    \/ \E r \in DOMAIN reqs : AuthFound(r)
    \/ \E r \in DOMAIN reqs : authorizeAdmin(r)
    \/ \E r \in DOMAIN reqs : UsersList(r)
    \/ \E r \in DOMAIN reqs : ProductsList(r)
    \/ \E r \in DOMAIN reqs : Recycle(r)

SpecPage == InitProducts /\ [][NextPage]_vars

TypeOK ==
    /\ now \in 0..MaxTime
    /\ \A r \in DOMAIN reqs : reqs[r].pc \in {"idle", "authenticate", "findByPk",
                                          "authorizeAdmin", "authorizeOwnerOrAdmin",
                                          "handler", "errorHandler", "done"}

(* ======================= properties of authenticate ==================== *)
InLog(q, e) == \E i \in 1..Len(q.log) : q.log[i] = e

\* the request has left the synchronous part of authenticate
PastAuthStart(q) == q.pc \notin {"idle", "authenticate"}

\* the Authorization header carries a token signed with the server's secret
ServerSigned(h) == h.prefix = "Bearer " /\ h.rest # Garbage /\ h.rest.key = JWT_SECRET

\* the header uses the bearer scheme but the token is forged or not a JWT
InvalidBearer(h) ==
    h.prefix = "Bearer " /\ (h.rest = Garbage \/ h.rest.key # JWT_SECRET)

\* C1: a request whose Authorization header is absent or does not start with
\* the bearer scheme is answered 401 by authenticate, with no token
\* verification, no Credential Store read, no req.user and no call of next.
C1_NoBearerIs401 ==
    \A r \in DOMAIN reqs :
        LET q == reqs[r]
        IN  (PastAuthStart(q) /\ q.header.prefix # "Bearer ")
                => /\ q.pc = "done"
                   /\ q.res.status = 401
                   /\ q.log = <<>>
                   /\ q.user = NoUser
                   /\ q.found = Unread

C1_Witness ==
    \E r \in DOMAIN reqs :
        /\ reqs[r].pc = "done"
        /\ reqs[r].header.prefix = "Token a"
        /\ reqs[r].res.status = 401

\* C2: when the row read from the Credential Store for the token's id has
\* isActive = false, a validly signed, unexpired token is answered 401 by
\* authenticate and the request reaches no gate and no handler.
C2_InactiveIs401 ==
    \A r \in DOMAIN reqs :
        LET q == reqs[r]
        IN  (q.found \notin {Unread, NoUser} /\ ~q.found.isActive)
                => /\ ServerSigned(q.header)
                   /\ q.found.id = q.header.rest.sub
                   /\ q.pc = "done"
                   /\ q.res.status = 401
                   /\ q.user = NoUser
                   /\ q.log = <<"jwt.verify", "authenticate:User.findByPk">>

C2_Witness ==
    \E r \in DOMAIN reqs :
        /\ reqs[r].found \in Accounts
        /\ ~reqs[r].found.isActive
        /\ reqs[r].res.status = 401

\* C3: for a validly signed, unexpired token, the response when the account
\* does not exist and the response when it exists but is inactive are the
\* same status and the same body.
C3_MissingSameAsInactive ==
    \A r \in DOMAIN reqs :
        LET q == reqs[r]
        IN  (q.found = NoUser \/ (q.found \in Accounts /\ ~q.found.isActive))
                => /\ q.pc = "done"
                   /\ q.res = Json(401, [success |-> FALSE,
                                          message |-> "Invalid or inactive user token."])

C3_Witness ==
    \E r \in DOMAIN reqs :
        /\ reqs[r].found = NoUser
        /\ reqs[r].pc = "done"
        /\ ServerSigned(reqs[r].header)

\* C4 as stated: a wrong-scheme header and a bearer header with a garbage
\* token both get 401 and the same body.
C4_SameBodyAsWrongScheme ==
    \A r \in DOMAIN reqs :
        LET q == reqs[r]
        IN  (q.pc = "done" /\ (q.header.prefix = "Token a"
                                  \/ (q.header.prefix = "Bearer " /\ q.header.rest = Garbage)))
                => /\ q.res.status = 401
                   /\ q.res.body = AuthRequiredRes.body

\* C4 (amended): a wrong-scheme header and a bearer header with a garbage
\* token both get 401 with a body of exactly success = false and a message;
\* the message is 'Authentication required. Please provide a valid token.'
\* for the wrong scheme and 'Invalid token.' for the garbage token.
C4_Both401MessagesDiffer ==
    \A r \in DOMAIN reqs :
        LET q == reqs[r]
        IN  /\ (q.pc = "done" /\ q.header.prefix = "Token a")
                => q.res = Json(401, [success |-> FALSE,
                            message |-> "Authentication required. Please provide a valid token."])
            /\ (q.pc = "done" /\ q.header.prefix = "Bearer " /\ q.header.rest = Garbage)
                => q.res = Json(401, [success |-> FALSE, message |-> "Invalid token."])

C4_Witness ==
    \E r \in DOMAIN reqs :
        /\ reqs[r].pc = "done"
        /\ reqs[r].header.prefix = "Bearer "
        /\ reqs[r].header.rest = Garbage
        /\ reqs[r].res.body.message = "Invalid token."

\* the request ended in the catch block because jwt.verify threw
VerifyFailed(q) == q.pc = "done" /\ q.log = <<"jwt.verify">>

\* C5: when token verification fails (the token is malformed or forged, or
\* it is the server's and its expiry has passed) authenticate answers 401;
\* the message for a malformed or forged token differs from the message
\* for an expired one; neither reads the Credential Store nor calls next.
C5_VerifyFailureIs401 ==
    [][\A r \in DOMAIN reqs :
        LET q == reqs[r]
            q2 == reqs'[r]
            h == q.header
        IN  (q.pc = "authenticate" /\ q2.pc # "authenticate" /\ h.prefix = "Bearer "
                /\ (InvalidBearer(h) \/ now >= h.rest.exp))
                => /\ VerifyFailed(q2)
                   /\ q2.res.status = 401
                   /\ q2.user = NoUser
                   /\ q2.res.body.message =
                        IF InvalidBearer(h) THEN "Invalid token."
                        ELSE "Token has expired. Please login again."
                   /\ "Invalid token." # "Token has expired. Please login again."]_vars

C5_Witness ==
    \E r \in DOMAIN reqs :
        /\ VerifyFailed(reqs[r])
        /\ ServerSigned(reqs[r].header)
        /\ reqs[r].res.body.message = "Token has expired. Please login again."

C7_ForgedIsInvalid ==
    \A r \in DOMAIN reqs :
        LET q == reqs[r]
        IN  (PastAuthStart(q) /\ q.header.prefix = "Bearer "
                /\ q.header.rest # Garbage /\ q.header.rest.key # JWT_SECRET)
                => /\ q.pc = "done"
                   /\ q.res = Json(401, [success |-> FALSE, message |-> "Invalid token."])
                   /\ ~InLog(q, "authenticate:User.findByPk")
                   /\ q.decodedId = Undefined
                   /\ q.found = Unread

\* a forged token whose expiry field has passed
C7_Witness ==
    \E r \in DOMAIN reqs :
        /\ reqs[r].pc = "done"
        /\ reqs[r].header.prefix = "Bearer "
        /\ reqs[r].header.rest # Garbage
        /\ reqs[r].header.rest.key # JWT_SECRET
        /\ reqs[r].header.rest.exp < now
        /\ reqs[r].res.body.message = "Invalid token."

(* ========================= properties of the gates ===================== *)
\* the request has been through the gate of its route
PastGate(q) == q.user # NoUser /\ q.pc \in {"handler", "done"}

\* C8: authorizeAdmin calls next if and only if the role of req.user is
\* 'admin'; for every other role it answers 403 and the handler of
\* GET /users and GET /users/:id issues no store query.
C8_AdminGate ==
    \A r \in DOMAIN reqs :
        LET q == reqs[r]
        IN  (q.route \in UserRoutes /\ PastGate(q))
                => /\ InLog(q, "authorizeAdmin:next") <=> q.user.role = "admin"
                   /\ q.user.role # "admin"
                        => /\ q.pc = "done"
                           /\ q.res.status = 403
                           /\ ~InLog(q, "handler:User.findAndCountAll")
                           /\ ~InLog(q, "handler:User.findByPk")

C8_Witness ==
    \E r \in DOMAIN reqs :
        /\ reqs[r].route = "GET /users"
        /\ reqs[r].user \in Accounts
        /\ reqs[r].user.role = "user"
        /\ reqs[r].res.status = 403

\* C9: the ownership gate answers 403 when the role of req.user is 'user'
\* and its id differs from the owner id the request presents, and calls
\* next when the role is 'admin' whatever the owner id, also when the
\* request carries no owner id at all.
C9_OwnerGate ==
    \A r \in DOMAIN reqs :
        LET q == reqs[r]
        IN  (q.route = OwnedRoute /\ PastGate(q))
                => /\ (q.user.role = "user" /\ q.user.id # ResourceUserId(q))
                        => /\ q.pc = "done"
                           /\ q.res.status = 403
                           /\ ~InLog(q, "authorizeOwnerOrAdmin:next")
                   /\ q.user.role = "admin"
                        => /\ q.pc = "handler"
                           /\ InLog(q, "authorizeOwnerOrAdmin:next")

\* an admin passes with no owner id anywhere in the request
C9_Witness ==
    \E r \in DOMAIN reqs :
        /\ reqs[r].route = OwnedRoute
        /\ reqs[r].pc = "handler"
        /\ reqs[r].user.role = "admin"
        /\ reqs[r].resourceUserId = Undefined
        /\ reqs[r].bodyUserId = Undefined
        /\ reqs[r].paramsUserId = Undefined

\* C10: a userId supplied by the client in the body or the path never makes
\* the ownership gate pass for an existing product of another account: a
\* caller of role 'user' who does not own the product is answered 403.
C10_ClientIdNeverEstablishesOwnership ==
    \A r \in DOMAIN reqs :
        LET q == reqs[r]
        IN  (q.route = OwnedRoute /\ PastGate(q) /\ q.user.role = "user"
                /\ q.user.id # products[q.paramsId].userId)
                => /\ q.pc = "done"
                   /\ q.res.status = 403

\* the ownership gate has run for the request
GateRan(q) == q.route = OwnedRoute /\ PastGate(q)

\* C11 as stated: the owner id the gate uses is req.resourceUserId when
\* present, otherwise req.body.userId when present, otherwise
\* req.params.userId, a field being present when it is not undefined.
C11_PresentFieldWins ==
    \A r \in DOMAIN reqs :
        LET q == reqs[r]
        IN  GateRan(q)
                => q.resolvedUserId =
                        IF q.resourceUserId # Undefined THEN q.resourceUserId
                        ELSE IF q.bodyUserId # Undefined THEN q.bodyUserId
                        ELSE q.paramsUserId

\* C11 (amended): the owner id the gate uses is req.resourceUserId when it
\* is truthy, otherwise req.body.userId when that is truthy, otherwise
\* req.params.userId; a field that is present but empty counts as absent.
C11_TruthyFieldWins ==
    \A r \in DOMAIN reqs :
        LET q == reqs[r]
            attached == q.resourceUserId \notin {Undefined, ""}
            inBody == q.bodyUserId \notin {Undefined, ""}
        IN  GateRan(q)
                => /\ attached => q.resolvedUserId = q.resourceUserId
                   /\ (~attached /\ inBody) => q.resolvedUserId = q.bodyUserId
                   /\ (~attached /\ ~inBody) => q.resolvedUserId = q.paramsUserId
                   /\ q.user.role = "user"
                        => (q.pc = "handler" <=> q.user.id = q.resolvedUserId)

\* the handler-attached id wins over different ids in the body and the path
C11_Witness ==
    \E r \in DOMAIN reqs :
        /\ GateRan(reqs[r])
        /\ reqs[r].resourceUserId \in AccountIds
        /\ reqs[r].bodyUserId \in AccountIds
        /\ reqs[r].bodyUserId # reqs[r].resourceUserId
        /\ reqs[r].resolvedUserId = reqs[r].resourceUserId
        /\ reqs[r].user.id = reqs[r].bodyUserId
        /\ reqs[r].res.status = 403

\* C12: the role is taken from the Credential Store on every request, never
\* from the token: the account attached by authenticate is the row as the
\* store holds it at the read, whatever it was when the token was issued,
\* and the role gate decides on that role (a demoted admin is refused, a
\* promoted user passes).
C12_RoleFromStore ==
    [][\A r \in DOMAIN reqs :
        LET q == reqs[r]
            q2 == reqs'[r]
        IN  /\ (q.pc = "findByPk" /\ q2.found # Unread)
                => /\ q2.found = users[q.header.rest.sub]
                   /\ q2.pc = "authorizeAdmin" => q2.user = users[q.header.rest.sub]
                   /\ q2.pc # "authorizeAdmin" => (q2.pc = "done" /\ q2.res.status = 401)
            /\ (q.pc = "authorizeAdmin" /\ q2 # q)
                => /\ q.user.role = "admin" => q2.pc = "handler"
                   /\ q.user.role # "admin" => (q2.pc = "done" /\ q2.res.status = 403)]_vars

\* the seeded admin, demoted in the store, is refused with its old token
C12_Witness ==
    \E r \in DOMAIN reqs :
        /\ reqs[r].route \in UserRoutes
        /\ reqs[r].header.rest.sub = "a1"
        /\ SeedUsers["a1"].role = "admin"
        /\ reqs[r].user.id = "a1"
        /\ reqs[r].user.role = "user"
        /\ reqs[r].res.status = 403

\* the number of Credential Store reads authenticate issued for the request
ReadCount(q) ==
    Cardinality({i \in 1..Len(q.log) : q.log[i] = "authenticate:User.findByPk"})

\* C13 as stated: every request processed by authenticate has exactly one
\* Credential Store read.
C13_ExactlyOneRead ==
    \A r \in DOMAIN reqs :
        PastAuthStart(reqs[r]) => ReadCount(reqs[r]) = 1

\* C13 (amended): authenticate issues exactly one Credential Store read for
\* a request whose token verified and none for a request it rejects at the
\* header or at verification; the account it attaches is the row of that
\* one read.
C13_OneReadIfVerified ==
    \A r \in DOMAIN reqs :
        LET q == reqs[r]
        IN  PastAuthStart(q)
                => /\ ReadCount(q) = IF q.decodedId # Undefined THEN 1 ELSE 0
                   /\ q.decodedId # Undefined <=> (ServerSigned(q.header) /\ ~VerifyFailed(q))
                   /\ ReadCount(q) = 0 => (q.pc = "done" /\ q.res.status = 401
                                               /\ q.found = Unread)
                   /\ q.user # NoUser => (q.user = q.found /\ ReadCount(q) = 1)

C13_Witness ==
    \E r \in DOMAIN reqs :
        /\ reqs[r].user \in Accounts
        /\ ReadCount(reqs[r]) = 1
        /\ reqs[r].pc = "done"
        /\ reqs[r].res.status = 200

(* --------------------------- the pipeline as a whole ------------------- *)
\* the stages of authenticate and of the two gates
MiddlewareStages == {"authenticate", "findByPk", "authorizeAdmin", "authorizeOwnerOrAdmin"}

\* the store calls of the route handlers
HandlerCalls == {"handler:User.findAndCountAll", "handler:User.findByPk"}

GateNexts == {"authorizeAdmin:next", "authorizeOwnerOrAdmin:next"}

Calls(q, e) == Cardinality({i \in 1..Len(q.log) : q.log[i] = e})

InLogAny(q, es) == \E i \in 1..Len(q.log) : q.log[i] \in es

\* C14: every step of authenticate, authorizeAdmin and
\* authorizeOwnerOrAdmin, accepting or rejecting, leaves the users table and
\* the products table as they were.
C14_MiddlewareWritesNothing ==
    [][\A r \in DOMAIN reqs :
          (reqs[r].pc \in MiddlewareStages /\ reqs'[r] # reqs[r])
              => (users' = users /\ products' = products)]_vars

C14_Witness ==
    \E r \in DOMAIN reqs :
        /\ reqs[r].route = OwnedRoute
        /\ reqs[r].pc = "done"
        /\ reqs[r].res = ForbiddenOwnerRes
        /\ InLog(reqs[r], "authenticate:next")
        /\ users = SeedUsers

\* C15: a gate or a handler runs for a request only after authenticate
\* attached req.user on that request (the account it read); once a response
\* is sent the request is over: after a 401 no gate and no handler ran, after
\* a 403 no handler ran, and the request takes no further step and writes no
\* store.
C15_ShortCircuit ==
    /\ [](\A r \in DOMAIN reqs :
            LET q == reqs[r]
            IN  /\ (q.pc \in {"authorizeAdmin", "authorizeOwnerOrAdmin", "handler"}
                        \/ InLogAny(q, GateNexts) \/ InLogAny(q, HandlerCalls))
                       => /\ q.user \in Accounts
                          /\ q.user = q.found
                          /\ InLog(q, "authenticate:next")
                /\ q.res # NoRes => q.pc = "done"
                /\ (q.pc = "done" /\ q.res.status = 401)
                       => ~InLogAny(q, GateNexts \cup HandlerCalls)
                /\ (q.pc = "done" /\ q.res.status = 403)
                       => ~InLogAny(q, HandlerCalls))
    /\ [][\A r \in DOMAIN reqs :
            reqs[r].res # NoRes
                => \/ reqs'[r] = reqs[r]
                   \/ reqs'[r] = IdleReq /\ users' = users /\ products' = products]_vars

C15_Witness ==
    \E r \in DOMAIN reqs :
        /\ reqs[r].pc = "done"
        /\ reqs[r].res = ForbiddenAdminRes
        /\ reqs[r].user = reqs[r].found
        /\ InLog(reqs[r], "authenticate:next")
        /\ ~InLogAny(reqs[r], HandlerCalls)

Normalized(q) == q.pc = "done" /\ q.route = "next(error)" /\ InLog(q, "errorHandler")

DuplicateRes ==
    Json(409, [success |-> FALSE,
               message |-> "Duplicate entry. This record already exists."])

\* C17: errorHandler answers a SequelizeValidationError with 400 and the
\* message "Validation Error: " followed by the field messages joined with
\* ", ", a SequelizeUniqueConstraintError with 409, a
\* SequelizeForeignKeyConstraintError with 400, a JsonWebTokenError with 401
\* and a TokenExpiredError with 401, whatever statusCode and message the
\* error carries.
C17_CategoryTable ==
    \A r \in DOMAIN reqs :
        LET q == reqs[r]
            e == q.err
        IN  Normalized(q)
                => /\ e.name = "SequelizeValidationError"
                       => /\ q.res.status = 400
                          /\ Len(e.errors) = 1
                                 => q.res.body.message = "Validation Error: " \o e.errors[1]
                          /\ Len(e.errors) = 2
                                 => q.res.body.message =
                                        "Validation Error: " \o e.errors[1]
                                            \o ", " \o e.errors[2]
                   /\ e.name = "SequelizeUniqueConstraintError" => q.res.status = 409
                   /\ e.name = "SequelizeForeignKeyConstraintError" => q.res.status = 400
                   /\ e.name = "JsonWebTokenError" => q.res.status = 401
                   /\ e.name = "TokenExpiredError" => q.res.status = 401

C17_Witness ==
    \E r \in DOMAIN reqs :
        /\ Normalized(reqs[r])
        /\ reqs[r].err.name = "SequelizeUniqueConstraintError"
        /\ reqs[r].err.statusCode = 413
        /\ reqs[r].res.status = 409

\* C18 as stated: the response to a uniqueness failure is the response
\* errorHandler gives to every other uniqueness failure.
C18_SameResponseForEveryField ==
    \A r \in DOMAIN reqs :
        (Normalized(reqs[r]) /\ reqs[r].err.name = "SequelizeUniqueConstraintError")
            => \A e2 \in Errors :
                  e2.name = "SequelizeUniqueConstraintError"
                      => errorHandler(e2, nodeEnv) = reqs[r].res

\* C18: a uniqueness failure is answered with 409 and the fixed message
\* "Duplicate entry. This record already exists."; outside NODE_ENV
\* 'development' that is the whole response, in 'development' the body also
\* carries the stack of the error, which names the error's own message.
C18_SameStatusAndMessage ==
    \A r \in DOMAIN reqs :
        LET q == reqs[r]
        IN  (Normalized(q) /\ q.err.name = "SequelizeUniqueConstraintError")
                => /\ q.res.status = 409
                   /\ q.res.body.message = DuplicateRes.body.message
                   /\ nodeEnv # "development" => q.res = DuplicateRes
                   /\ nodeEnv = "development"
                          => /\ DOMAIN q.res.body = {"success", "message", "stack"}
                             /\ q.res.body.stack = q.err.stack

C18_Witness ==
    \E r \in DOMAIN reqs :
        /\ Normalized(reqs[r])
        /\ reqs[r].err.name = "SequelizeUniqueConstraintError"
        /\ reqs[r].err.message = "email must be unique"
        /\ nodeEnv = "development"
        /\ reqs[r].res.status = 409

\* C19 as stated: an error of no recognized category is answered with 500
\* and 'Server Error', and a stack only outside production.
C19_Always500Generic ==
    \A r \in DOMAIN reqs :
        LET q == reqs[r]
        IN  (Normalized(q) /\ q.err.name \notin ClassifiedNames)
                => /\ q.res.status = 500
                   /\ q.res.body.message = "Server Error"
                   /\ "stack" \in DOMAIN q.res.body => nodeEnv # "production"

\* C19: an error of no recognized category is answered with its own
\* statusCode when it has one and 500 otherwise, with its own message when
\* that is not empty and 'Server Error' otherwise, and with its stack exactly
\* when NODE_ENV is 'development'.
C19_UnclassifiedKeepsItsOwn ==
    \A r \in DOMAIN reqs :
        LET q == reqs[r]
        IN  (Normalized(q) /\ q.err.name \notin ClassifiedNames)
                => /\ q.res.status = IF q.err.statusCode # 0 THEN q.err.statusCode ELSE 500
                   /\ q.res.body.message =
                          IF q.err.message # "" THEN q.err.message ELSE "Server Error"
                   /\ "stack" \in DOMAIN q.res.body <=> nodeEnv = "development"

C19_Witness ==
    \E r \in DOMAIN reqs :
        /\ Normalized(reqs[r])
        /\ reqs[r].err.name = "SyntaxError"
        /\ reqs[r].err.statusCode = 400
        /\ reqs[r].res.status = 400
        /\ nodeEnv = "test"

\* C20 as stated: a failure response has success=false, a string message,
\* possibly errors, and nothing else.
C20_EnvelopeOnly ==
    \A r \in DOMAIN reqs :
        LET q == reqs[r]
        IN  (q.pc = "done" /\ q.res.status >= 400)
                => /\ q.res.body.success = FALSE
                   /\ q.res.body.message \in STRING
                   /\ DOMAIN q.res.body \subseteq {"success", "message", "errors"}

\* C20: a failure response has success=false and a string message; beyond
\* these and errors it has the field error only in the 500 of authenticate's
\* catch block, the field path only in the 404 of the 404 handler, and the
\* field stack only from errorHandler under NODE_ENV 'development'.
C20_EnvelopeWithExtras ==
    \A r \in DOMAIN reqs :
        LET q == reqs[r]
            fields == DOMAIN q.res.body
        IN  (q.pc = "done" /\ q.res.status >= 400)
                => /\ q.res.body.success = FALSE
                   /\ q.res.body.message \in STRING
                   /\ fields \subseteq {"success", "message", "errors",
                                        "error", "path", "stack"}
                   /\ "error" \in fields
                          => /\ q.res.status = 500
                             /\ PastAuthStart(q)
                             /\ ~InLog(q, "authenticate:next")
                             /\ ~InLog(q, "errorHandler")
                   /\ "path" \in fields => (q.res.status = 404 /\ q.route = "*")
                   /\ "stack" \in fields
                          => (InLog(q, "errorHandler") /\ nodeEnv = "development")

C20_Witness ==
    \E r \in DOMAIN reqs :
        /\ reqs[r].pc = "done"
        /\ reqs[r].route = "*"
        /\ reqs[r].res.status = 404
        /\ "path" \in DOMAIN reqs[r].res.body

(* ====================== properties of the resources ==================== *)
\* C21 as stated: the account attached as req.user has no password field,
\* and no row in a response of GET /users or GET /users/:id has one.
C21_NoPasswordOnContext ==
    \A r \in DOMAIN reqs :
        LET q == reqs[r]
        IN  /\ q.user # NoUser => "password" \notin DOMAIN q.user
            /\ (q.route = "GET /users" /\ q.res.status = 200)
                   => \A i \in 1..Len(q.res.body.data.users) :
                          "password" \notin DOMAIN q.res.body.data.users[i]
            /\ (q.route = "GET /users/:id" /\ q.res.status = 200)
                   => "password" \notin DOMAIN q.res.body.data.user

\* C22: with two requests in flight, the account a request carries is the
\* one read for the subject of its own token, its gate and handler decide on
\* that account, and a step of one request leaves the context of the other
\* as it was.
C22_OwnContextOnly ==
    /\ [](\A r \in DOMAIN reqs :
            LET q == reqs[r]
            IN  /\ q.user # NoUser
                       => /\ q.user.id = q.header.rest.sub
                          /\ q.user = q.found
                /\ (q.pc = "done" /\ q.route = "GET /users" /\ q.user # NoUser)
                       => (q.res.status = 403 <=> SeedUsers[q.header.rest.sub].role # "admin")
                /\ (q.pc = "done" /\ q.route = "GET /products" /\ q.res.status = 200
                        /\ SeedUsers[q.header.rest.sub].role # "admin")
                       => \A i \in 1..Len(q.res.body.data.products) :
                              q.res.body.data.products[i].userId = q.header.rest.sub)
    /\ [][\A r, x \in DOMAIN reqs :
            (x # r /\ reqs'[r] # reqs[r]) => reqs'[x] = reqs[x]]_vars

C22_Witness ==
    /\ reqs[1].pc = "handler"
    /\ reqs[2].pc = "handler"
    /\ reqs[1].user.id = "a1"
    /\ reqs[2].user.id = "a2"
    /\ reqs[1].route = reqs[2].route

\* C23: every product in a 200 of GET /products or GET /products/:id sent
\* to a caller whose role is not 'admin' has the caller's id as userId; a
\* caller whose role is 'admin' is never answered 403 by these routes and is
\* listed products of other owners too.
C23_OwnProductsOnly ==
    \A r \in DOMAIN reqs :
        LET q == reqs[r]
        IN  (q.pc = "done" /\ q.user # NoUser)
                => /\ (q.user.role # "admin" /\ q.route = "GET /products"
                           /\ q.res.status = 200)
                          => \A i \in 1..Len(q.res.body.data.products) :
                                 q.res.body.data.products[i].userId = q.user.id
                   /\ (q.user.role # "admin" /\ q.route = "GET /products/:id"
                           /\ q.res.status = 200)
                          => q.res.body.data.product.userId = q.user.id
                   /\ (q.user.role = "admin"
                           /\ q.route \in {"GET /products", "GET /products/:id"})
                          => q.res.status # 403
                   /\ (q.user.role = "admin" /\ q.route = "GET /products"
                           /\ q.res.status = 200 /\ q.query = NoQuery)
                          => q.res.body.data.pagination.total =
                                 Cardinality({p \in ProductIds : products[p] # NoProduct})

C23_Witness ==
    \E r \in DOMAIN reqs :
        /\ reqs[r].route = "GET /products"
        /\ reqs[r].user.role = "user"
        /\ reqs[r].res.status = 200
        /\ Len(reqs[r].res.body.data.products) = 1
        /\ \E p \in ProductIds : products[p] # NoProduct /\ products[p].userId # reqs[r].user.id

\* the caller of request q is neither an admin nor the owner of the product
\* that q names
Stranger(q) ==
    /\ q.user # NoUser
    /\ q.user.role # "admin"
    /\ products[q.paramsId] # NoProduct
    /\ products[q.paramsId].userId # q.user.id

C25_OwnerNeverChanges ==
    [][\A p \in ProductIds :
          (products[p] # NoProduct /\ products'[p] # NoProduct)
              => products'[p].userId = products[p].userId]_vars

\* C26: a row that appears in the products table was created by a POST
\* /products that is answered 201, and its userId is the id of that
\* request's req.user, whatever userId the body carries.
C26_CreatedForCaller ==
    [][\A p \in ProductIds :
          (products[p] = NoProduct /\ products'[p] # NoProduct)
              => \E r \in DOMAIN reqs :
                    /\ reqs[r].pc = "handler"
                    /\ reqs[r].route = "POST /products"
                    /\ reqs'[r].res.status = 201
                    /\ products'[p].userId = reqs[r].user.id
                    /\ reqs'[r].res.body.data.product.userId = reqs[r].user.id]_vars

C26_Witness ==
    \E r \in DOMAIN reqs :
        /\ reqs[r].route = "POST /products"
        /\ reqs[r].res.status = 201
        /\ reqs[r].user.id = "a2"
        /\ reqs[r].bodyUserId = "a1"
        /\ products[reqs[r].res.body.data.product.id].userId = "a2"

\* C27: a request on an authenticated route is answered exactly once:
\* never twice, not before its pipeline ends, once when it has ended;
\* authenticate either answers or calls next once, never both; errorHandler
\* answers at most once, only after next(error); and a request that entered
\* is eventually answered.
C27_ExactlyOneResponse ==
    /\ [](\A r \in DOMAIN reqs :
            LET q == reqs[r]
            IN  /\ q.sent <= 1
                /\ q.sent = 1 <=> q.pc = "done"
                /\ q.sent = 1 <=> q.res # NoRes
                /\ Calls(q, "authenticate:next") <= 1
                /\ q.pc = "handler" => Calls(q, "authenticate:next") = 1
                /\ (q.pc = "done" /\ ~InLog(q, "authenticate:next"))
                       => /\ q.res.status \in {401, 500}
                          /\ ~InLog(q, "next(error)")
                /\ Calls(q, "errorHandler") <= 1
                /\ Calls(q, "errorHandler") = Calls(q, "next(error)"))
    /\ \A r \in ReqIds : (reqs[r].pc = "authenticate") ~> (reqs[r].pc = "done")

C27_Witness ==
    \E r \in DOMAIN reqs :
        /\ reqs[r].route = "PUT /products/:id"
        /\ reqs[r].pc = "done"
        /\ reqs[r].sent = 1
        /\ InLog(reqs[r], "handler:product.reload")
        /\ InLog(reqs[r], "errorHandler")
        /\ reqs[r].res.status = 500

\* the row of q's account is no longer the one authenticate read
ChangedSinceRead(q) == q.user # NoUser /\ users[q.user.id] # q.user

\* C28: the gate and the handlers decide on the account authenticate read
\* for the request, whatever the row of that account is by then: the admin
\* gate refuses exactly when the role read was not 'admin', GET /products
\* restricts the rows to the caller exactly when the role read was not
\* 'admin', and no stage after authenticate answers 401; the account a
\* request carries is the row as it was when its own authenticate read it.
C28_SnapshotDecides ==
    [][\A r \in DOMAIN reqs :
          LET q == reqs[r]
              q2 == reqs'[r]
          IN  /\ (q.pc = "findByPk" /\ q2.user # NoUser) => q2.user = users[q.decodedId]
              /\ (q.pc = "authorizeAdmin" /\ q2 # q)
                     => /\ q2.user = q.user
                        /\ q2.res.status = 403 <=> q.user.role # "admin"
                        /\ q2.pc = "handler" <=> q.user.role = "admin"
              /\ (q.pc = "handler" /\ q2.pc = "done")
                     => /\ q2.res.status # 401
                        /\ (q.route = "GET /products" /\ q2.res.status = 200)
                               => IF q.user.role = "admin"
                                  THEN q2.res.body.data.pagination.total =
                                           Cardinality({p \in ProductIds :
                                               /\ products[p] # NoProduct
                                               /\ Truthy(q.query.search)
                                                      => ILike(products[p].name,
                                                               q.query.search)})
                                  ELSE \A i \in 1..Len(q2.res.body.data.products) :
                                           q2.res.body.data.products[i].userId = q.user.id]_vars

C28_Witness ==
    \E r \in DOMAIN reqs :
        /\ reqs[r].route = "GET /users"
        /\ reqs[r].pc = "done"
        /\ reqs[r].res.status = 200
        /\ ChangedSinceRead(reqs[r])
        /\ users[reqs[r].user.id].role = "user"
        /\ ~users[reqs[r].user.id].isActive

IdRoutes == {"GET /products/:id", "PUT /products/:id", "DELETE /products/:id"}

\* C29: on /products/:id the handler checks validation, then existence,
\* then ownership: a PUT whose body fails validation is answered 400 with no
\* findByPk; otherwise, when the lookup returns, an id without a row is
\* answered 404 whoever the caller is, and 403 is answered exactly when the
\* row exists and the caller is neither admin nor owner.
C29_ValidationExistenceOwnership ==
    [][\A r \in DOMAIN reqs :
          LET q == reqs[r]
              q2 == reqs'[r]
              invalid == q.route = "PUT /products/:id" /\ ~q.bodyValid
              returned == ~InLog(q2, "next(error)")
          IN  (q.pc = "handler" /\ q.route \in IdRoutes /\ q2 # q)
                  => /\ invalid => /\ q2.res.status = 400
                                   /\ ~InLog(q2, "handler:Product.findByPk")
                     /\ ~invalid => InLog(q2, "handler:Product.findByPk")
                     /\ (~invalid /\ returned /\ products[q.paramsId] = NoProduct)
                            => q2.res.status = 404
                     /\ (~invalid /\ returned)
                            => (q2.res.status = 403 <=> Stranger(q))
                     /\ q2.res.status = 403 => Stranger(q)]_vars

C29_Witness ==
    \E r \in DOMAIN reqs :
        /\ reqs[r].route = "PUT /products/:id"
        /\ reqs[r].pc = "done"
        /\ reqs[r].user.role = "user"
        /\ products[reqs[r].paramsId] = NoProduct
        /\ reqs[r].bodyValid
        /\ reqs[r].res = ProductNotFoundRes

\* C30 as stated: a list handler issues its query with limit >= 1 and
\* offset = (page - 1) * limit >= 0, an absent or zero page and limit give
\* the query of page 1 with limit 10, and pages is ceil(total / limit).
C30_QueryWellFormed ==
    \A r \in DOMAIN reqs :
        LET q == reqs[r]
            absent(v) == v.nan \/ v.n = 0
        IN  (q.pc = "done" /\ q.route \in {"GET /users", "GET /products"}
                 /\ InLog(q, "authenticate:next") /\ q.res.status # 403)
                => /\ q.issued.issued
                       => /\ q.issued.limit >= 1
                          /\ q.issued.offset >= 0
                          /\ q.issued.offset = (PageOf(q.query) - 1) * q.issued.limit
                   /\ (absent(q.query.page) /\ absent(q.query.limit))
                       => q.issued = Issued(10, 0)
                   /\ q.res.status = 200
                       => LET pg == q.res.body.data.pagination
                          IN  /\ pg.pages * pg.limit >= pg.total
                              /\ (pg.pages - 1) * pg.limit < pg.total \/ pg.total = 0

====
